---- MODULE Spec2Model ----
(***************************************************************************)
(* Model of the private_messages Solana program (identity registry, plain  *)
(* message store, confidential message store, access verification through  *)
(* the MPC cluster) and of the verify_and_reveal_sender circuit.           *)
(*                                                                         *)
(* Every instruction is one atomic action.  Account validation (the        *)
(* #[derive(Accounts)] constraints) runs before the handler body, in the   *)
(* order Anchor checks it; a failing instruction reverts the transaction,  *)
(* so it leaves the ledger unchanged and emits nothing.                    *)
(***************************************************************************)
EXTENDS Integers, Sequences, FiniteSets, TLC

VARIABLES
    user_account,             \* owner -> UserAccount (the PDA ["user", owner])
    message_account,          \* <<sender, recipient, count>> -> MessageAccount
    private_message_account,  \* <<sender, message_index>> -> PrivateMessageAccount
    private_message_counter,  \* PrivateMessageCounter (init_if_needed)
    comp_def_account,         \* circuit -> is its computation definition initialised
    sign_pda_account,         \* ArciumSignerAccount (init_if_needed)
    computation_account,      \* computation address -> queued computation
    settled,                  \* computation address -> how it was last settled
    outcome,                  \* the last instruction and its result
    emitted,                  \* the notices emitted by the last instruction
    was_read,                 \* mark_as_read: is_read of the message before the call
    recipient_hash,           \* circuit: AccessCheck.recipient_hash
    requester_hash,           \* circuit: AccessCheck.requester_hash
    is_match,                 \* circuit: the accumulator
    i,                        \* circuit: loop index, 0-based as in the source
    pc,                       \* circuit: "idle" | "loop" | "done"
    treasury,                 \* post program: lamports of the treasury PDA
    wallet_lamports,          \* post program: lamports of WALLET_1..WALLET_3
    author_lamports,          \* post program: author -> lamports
    post                      \* post program: <<author, target>> -> Post

ledger == <<user_account, message_account, private_message_account,
            private_message_counter, comp_def_account, sign_pda_account,
            computation_account>>

circuit == <<recipient_hash, requester_hash, is_match, i, pc>>

post_program == <<treasury, wallet_lamports, author_lamports, post>>

vars == <<ledger, settled, outcome, emitted, was_read, circuit, post_program>>

(***************************************************************************)
(* Program constants and the bounds of the model.                          *)
(***************************************************************************)
MAX_MESSAGE_SIZE == 256

HASH_LEN == 32

\* Cap on UserAccount.message_count (a u64 in the source).
MaxMessages == 2

\* Cap on PrivateMessageCounter.count (a u64 in the source).
MaxPrivate == 2

\* Largest byte value used in the commitments given to the circuit.
MaxByte == 2

Actors == {"A", "B"}

Keys == {"Ka", "Kb"}

Nonces == {"n24"}

Times == {1000}

\* The message_index and computation_offset values callers offer (both u64).
MessageIndexes == {0, 7}

Offsets == {0, 1}

MpcKeys == {"Pa"}

MpcNonces == {258}

\* encrypted_content is opaque to the program, which reads only its length.
ContentLens == {MAX_MESSAGE_SIZE, MAX_MESSAGE_SIZE + 1}

(***************************************************************************)
(* Commitments: 32-byte arrays.  Unit(p, v) is zero except byte p = v;     *)
(* positions are 1-based here, the source's index i is position i + 1.     *)
(***************************************************************************)
Unit(p, v) == [k \in 1..HASH_LEN |-> IF k = p THEN v ELSE 0]

Commitments == {Unit(p, v) : p \in 1..HASH_LEN, v \in 0..MaxByte}

\* The two commitments used on the ledger: they differ only in the last byte.
Ea == Unit(HASH_LEN, 0)

Eb == Unit(HASH_LEN, 1)

(***************************************************************************)
(* Addresses.  A PDA is a function of its seeds.                           *)
(***************************************************************************)
UserPda(owner) == owner

MessagePda(sender, recipient, count) == <<sender, recipient, count>>

\* The canonical bump of find_program_address.  The seeds of the signer PDA
\* are fixed and so is its bump under this program id, 254.  The actors stand
\* for wallets whose own PDAs all have the bump 255, as those of about half
\* of the wallets do.
FindBump(seeds) == IF seeds[1] = "SignerAccount" THEN 254 ELSE 255

(***************************************************************************)
(* A failing instruction: the transaction is reverted.                     *)
(***************************************************************************)
\* outcome.computation is the computation address an access-check instruction
\* was given, <<>> for the other instructions.
Fail(op, computation, err) ==
    /\ outcome' = [op |-> op, computation |-> computation, status |-> err]
    /\ emitted' = <<>>
    /\ was_read' = FALSE
    /\ UNCHANGED <<ledger, settled>>

Ok(op, computation, notices) ==
    /\ outcome' = [op |-> op, computation |-> computation, status |-> "Ok"]
    /\ emitted' = notices
    /\ was_read' = FALSE

(***************************************************************************)
(* register_user                                                           *)
(***************************************************************************)
NewUserAccount(owner, x25519_pubkey) ==
    [wallet |-> owner,
     x25519_pubkey |-> x25519_pubkey,
     message_count |-> 0,
     bump |-> FindBump(<<"user", owner>>)]

\* init_if_needed in place of init: an existing account is overwritten.
register_user_overwrites(owner, x25519_pubkey) ==
    /\ user_account' =
           [a \in DOMAIN user_account \cup {owner} |->
               IF a = owner THEN [wallet |-> owner,
                                  x25519_pubkey |-> x25519_pubkey,
                                  message_count |-> 0,
                                  bump |-> 255]
               ELSE user_account[a]]
    /\ UNCHANGED <<message_account, private_message_account,
                   private_message_counter, comp_def_account,
                   sign_pda_account, computation_account, settled>>
    /\ outcome' = [op |-> "register_user", computation |-> <<>>, status |-> "Ok"]
    /\ emitted' = <<[name |-> "UserRegistered",
                     wallet |-> owner,
                     x25519_pubkey |-> x25519_pubkey]>>
    /\ was_read' = FALSE

register_user(owner, x25519_pubkey) ==
    IF UserPda(owner) \in DOMAIN user_account
    THEN Fail("register_user", <<>>, "AccountAlreadyInUse")
    ELSE /\ user_account' =
                user_account @@ (UserPda(owner) :> NewUserAccount(owner, x25519_pubkey))
         /\ UNCHANGED <<message_account, private_message_account,
                        private_message_counter, comp_def_account,
                        sign_pda_account, computation_account, settled>>
         /\ Ok("register_user", <<>>,
               <<[name |-> "UserRegistered",
                  wallet |-> owner,
                  x25519_pubkey |-> x25519_pubkey]>>)

(***************************************************************************)
(* update_user_key: owner signs, user is the address passed as             *)
(* user_account.                                                           *)
(***************************************************************************)
\* The seeds constraint left out.
UpdateUserKeyNoSeeds(owner, user) == TRUE

UpdateUserKeySeedsOk(owner, user) == user = UserPda(owner)

update_user_key(owner, user, new_x25519_pubkey) ==
    IF user \notin DOMAIN user_account
    THEN Fail("update_user_key", <<>>, "AccountNotInitialized")
    ELSE IF ~UpdateUserKeySeedsOk(owner, user)
    THEN Fail("update_user_key", <<>>, "ConstraintSeeds")
    ELSE /\ user_account' =
                [user_account EXCEPT ![user].x25519_pubkey = new_x25519_pubkey]
         /\ UNCHANGED <<message_account, private_message_account,
                        private_message_counter, comp_def_account,
                        sign_pda_account, computation_account, settled>>
         /\ Ok("update_user_key", <<>>,
               <<[name |-> "UserKeyUpdated",
                  wallet |-> user_account[user].wallet,
                  new_x25519_pubkey |-> new_x25519_pubkey]>>)

(***************************************************************************)
(* send_message: recipient_user is the address passed as recipient_user;   *)
(* message_account is the PDA of (sender, recipient wallet, count).        *)
(***************************************************************************)
\* An off-by-one bound.
ContentFitsStrict(len) == len < 256

\* The length check left out.
ContentFitsAlways(len) == TRUE

ContentFits(len) == len <= MAX_MESSAGE_SIZE

\* The message PDA seeded without the recipient's message_count.
SendMessageSlotNoCount(sender, recipient_user) ==
    <<sender, user_account[recipient_user].wallet, 0>>

SendMessageSlot(sender, recipient_user) ==
    MessagePda(sender,
               user_account[recipient_user].wallet,
               user_account[recipient_user].message_count)

\* sender and recipient stored the wrong way round.
NewMessageAccountSwapped(sender, recipient_user, encrypted_content, nonce, now) ==
    [sender |-> user_account[recipient_user].wallet,
     recipient |-> sender,
     encrypted_content |-> encrypted_content,
     nonce |-> nonce,
     timestamp |-> now,
     is_read |-> FALSE,
     bump |-> 255]

NewMessageAccount(sender, recipient_user, encrypted_content, nonce, now) ==
    [sender |-> sender,
     recipient |-> user_account[recipient_user].wallet,
     encrypted_content |-> encrypted_content,
     nonce |-> nonce,
     timestamp |-> now,
     is_read |-> FALSE,
     bump |-> FindBump(<<"message", sender, recipient_user>>)]

MessageSentIndex(recipient_user) ==
    user_account'[recipient_user].message_count

send_message(sender, recipient_user, encrypted_content, nonce, now) ==
    IF recipient_user \notin DOMAIN user_account
    THEN Fail("send_message", <<>>, "AccountNotInitialized")
    ELSE IF SendMessageSlot(sender, recipient_user) \in DOMAIN message_account
    THEN Fail("send_message", <<>>, "AccountAlreadyInUse")
    ELSE IF ~ContentFits(encrypted_content)
    THEN Fail("send_message", <<>>, "MessageTooLong")
    ELSE /\ user_account[recipient_user].message_count < MaxMessages
         /\ message_account' =
                message_account @@
                (SendMessageSlot(sender, recipient_user) :>
                    NewMessageAccount(sender, recipient_user, encrypted_content,
                                      nonce, now))
         /\ user_account' =
                [user_account EXCEPT ![recipient_user].message_count = @ + 1]
         /\ UNCHANGED <<private_message_account, private_message_counter,
                        comp_def_account, sign_pda_account, computation_account, settled>>
         /\ Ok("send_message", <<>>,
               <<[name |-> "MessageSent",
                  sender |-> sender,
                  recipient |-> user_account[recipient_user].wallet,
                  timestamp |-> now,
                  message_index |-> MessageSentIndex(recipient_user)]>>)

(***************************************************************************)
(* mark_as_read: message is the address passed as message_account.         *)
(***************************************************************************)
\* The sender may mark too.
IsRecipientOrSender(reader, message) ==
    \/ message_account[message].recipient = reader
    \/ message_account[message].sender = reader

\* Only an unread message may be marked.
IsRecipientOfUnread(reader, message) ==
    /\ message_account[message].recipient = reader
    /\ ~message_account[message].is_read

IsRecipient(reader, message) == message_account[message].recipient = reader

\* The flag flipped instead of set.
mark_as_read_toggles(reader, message) ==
    IF message \notin DOMAIN message_account
    THEN Fail("mark_as_read", <<>>, "AccountNotInitialized")
    ELSE IF message_account[message].recipient # reader
    THEN Fail("mark_as_read", <<>>, "Unauthorized")
    ELSE /\ message_account' =
                [message_account EXCEPT ![message].is_read = ~@]
         /\ UNCHANGED <<user_account, private_message_account,
                        private_message_counter, comp_def_account,
                        sign_pda_account, computation_account, settled>>
         /\ outcome' = [op |-> "mark_as_read", computation |-> <<>>, status |-> "Ok"]
         /\ emitted' = <<[name |-> "MessageRead",
                          sender |-> message_account[message].sender,
                          recipient |-> message_account[message].recipient,
                          timestamp |-> message_account[message].timestamp]>>
         /\ was_read' = message_account[message].is_read

mark_as_read(reader, message) ==
    IF message \notin DOMAIN message_account
    THEN Fail("mark_as_read", <<>>, "AccountNotInitialized")
    ELSE IF ~IsRecipient(reader, message)
    THEN Fail("mark_as_read", <<>>, "Unauthorized")
    ELSE /\ message_account' = [message_account EXCEPT ![message].is_read = TRUE]
         /\ UNCHANGED <<user_account, private_message_account,
                        private_message_counter, comp_def_account,
                        sign_pda_account, computation_account, settled>>
         /\ outcome' = [op |-> "mark_as_read", computation |-> <<>>, status |-> "Ok"]
         /\ emitted' = <<[name |-> "MessageRead",
                          sender |-> message_account[message].sender,
                          recipient |-> message_account[message].recipient,
                          timestamp |-> message_account[message].timestamp]>>
         /\ was_read' = message_account[message].is_read

MessageSlots == Actors \X Actors \X (0..MaxMessages)

(***************************************************************************)
(* Ciphertexts.  The ledger holds each commitment as one 32-byte           *)
(* ciphertext made off chain with the MXE key; the program never opens it. *)
(* from_arcis is the cluster's encryption of the circuit's result for the  *)
(* owner of the shared key.                                                *)
(***************************************************************************)
MxeCiphertexts == {"enc_Ea", "enc_Eb"}

from_arcis(owner, value) == [shared_with |-> owner, plaintext |-> value]

\* u128::to_le_bytes, least significant byte first.
RECURSIVE LeBytes(_, _)
LeBytes(n, len) ==
    IF len = 0 THEN <<>> ELSE <<n % 256>> \o LeBytes(n \div 256, len - 1)

to_le_bytes(n) == LeBytes(n, 16)

(***************************************************************************)
(* The circuit verify_and_reveal_sender.  CompareStep is the loop body for *)
(* the source's index idx (0-based).                                       *)
(***************************************************************************)
CompareStep(acc, recipient, requester, idx) ==
    IF recipient[idx + 1] # requester[idx + 1] THEN 0 ELSE acc

\* A loop that stops one byte short.
LoopEndShort == HASH_LEN - 1

\* for i in 0..32
LoopEnd == 32

(***************************************************************************)
(* send_private_message                                                    *)
(***************************************************************************)
PrivateMessagePda(sender, message_index) == <<sender, message_index>>

NewPrivateMessageAccount(sender, message_index, encrypted_sender_hash, encrypted_recipient_hash, encrypted_content, nonce, mpc_pubkey, mpc_nonce, now) ==
    [encrypted_sender_hash |-> encrypted_sender_hash,
     encrypted_recipient_hash |-> encrypted_recipient_hash,
     encrypted_content |-> encrypted_content,
     nonce |-> nonce,
     timestamp |-> now,
     mpc_pubkey |-> mpc_pubkey,
     mpc_nonce |-> mpc_nonce,
     bump |-> FindBump(<<"private_message", sender, message_index>>)]

\* A notice that names the sender.
PrivateMessageSentWithSender(sender, message_index, now) ==
    [name |-> "PrivateMessageSent",
     sender |-> sender,
     message_index |-> message_index,
     timestamp |-> now]

\* A notice that numbers the messages from 1.
PrivateMessageSentFromOne(sender, message_index, now) ==
    [name |-> "PrivateMessageSent",
     message_index |-> message_index + 1,
     timestamp |-> now]

PrivateMessageSent(sender, message_index, now) ==
    [name |-> "PrivateMessageSent",
     message_index |-> message_index,
     timestamp |-> now]

\* init_if_needed in place of init on private_message_account: a used slot
\* is written again.
send_private_message_init_if_needed(sender, message_index, encrypted_sender_hash, encrypted_recipient_hash, encrypted_content, nonce, mpc_pubkey, mpc_nonce, now) ==
    IF ~ContentFits(encrypted_content)
    THEN Fail("send_private_message", <<>>, "MessageTooLong")
    ELSE /\ private_message_counter.count < MaxPrivate
         /\ private_message_account' =
                [a \in DOMAIN private_message_account
                        \cup {<<sender, message_index>>} |->
                    IF a = <<sender, message_index>>
                    THEN [encrypted_sender_hash |-> encrypted_sender_hash,
                          encrypted_recipient_hash |-> encrypted_recipient_hash,
                          encrypted_content |-> encrypted_content,
                          nonce |-> nonce,
                          timestamp |-> now,
                          mpc_pubkey |-> mpc_pubkey,
                          mpc_nonce |-> mpc_nonce,
                          bump |-> 255]
                    ELSE private_message_account[a]]
         /\ private_message_counter' =
                [private_message_counter EXCEPT !.initialized = TRUE,
                                                !.count = @ + 1]
         /\ UNCHANGED <<user_account, message_account, comp_def_account,
                        sign_pda_account, computation_account, settled>>
         /\ Ok("send_private_message", <<>>,
               <<[name |-> "PrivateMessageSent",
                  message_index |-> message_index,
                  timestamp |-> now]>>)

\* The counter is created but not incremented.
send_private_message_uncounted(sender, message_index, encrypted_sender_hash, encrypted_recipient_hash, encrypted_content, nonce, mpc_pubkey, mpc_nonce, now) ==
    IF <<sender, message_index>> \in DOMAIN private_message_account
    THEN Fail("send_private_message", <<>>, "AccountAlreadyInUse")
    ELSE IF ~ContentFits(encrypted_content)
    THEN Fail("send_private_message", <<>>, "MessageTooLong")
    ELSE /\ private_message_account' =
                private_message_account @@
                (<<sender, message_index>> :>
                    [encrypted_sender_hash |-> encrypted_sender_hash,
                     encrypted_recipient_hash |-> encrypted_recipient_hash,
                     encrypted_content |-> encrypted_content,
                     nonce |-> nonce,
                     timestamp |-> now,
                     mpc_pubkey |-> mpc_pubkey,
                     mpc_nonce |-> mpc_nonce,
                     bump |-> 255])
         /\ private_message_counter' =
                [private_message_counter EXCEPT !.initialized = TRUE]
         /\ UNCHANGED <<user_account, message_account, comp_def_account,
                        sign_pda_account, computation_account, settled>>
         /\ Ok("send_private_message", <<>>,
               <<[name |-> "PrivateMessageSent",
                  message_index |-> message_index,
                  timestamp |-> now]>>)

send_private_message(sender, message_index, encrypted_sender_hash, encrypted_recipient_hash, encrypted_content, nonce, mpc_pubkey, mpc_nonce, now) ==
    IF PrivateMessagePda(sender, message_index) \in DOMAIN private_message_account
    THEN Fail("send_private_message", <<>>, "AccountAlreadyInUse")
    ELSE IF ~ContentFits(encrypted_content)
    THEN Fail("send_private_message", <<>>, "MessageTooLong")
    ELSE /\ private_message_counter.count < MaxPrivate
         /\ private_message_account' =
                private_message_account @@
                (PrivateMessagePda(sender, message_index) :>
                    NewPrivateMessageAccount(sender, message_index,
                        encrypted_sender_hash, encrypted_recipient_hash,
                        encrypted_content, nonce, mpc_pubkey, mpc_nonce, now))
         /\ private_message_counter' =
                [private_message_counter EXCEPT !.initialized = TRUE,
                                                !.count = @ + 1]
         /\ UNCHANGED <<user_account, message_account, comp_def_account,
                        sign_pda_account, computation_account, settled>>
         /\ Ok("send_private_message", <<>>,
               <<PrivateMessageSent(sender, message_index, now)>>)

(***************************************************************************)
(* The computation-definition and computation accounts live in the Arcium  *)
(* program; this program reaches them through init_comp_def,               *)
(* queue_computation and the callbacks.                                    *)
(***************************************************************************)
\* comp_def_offset("test_add"), comp_def_offset("verify_and_reveal_sender").
COMP_DEF_OFFSET_TEST_ADD == "test_add"

COMP_DEF_OFFSET_VERIFY_AND_REVEAL_SENDER == "verify_and_reveal_sender"

CompDefs == {COMP_DEF_OFFSET_TEST_ADD, COMP_DEF_OFFSET_VERIFY_AND_REVEAL_SENDER}

init_comp_def(op, kind) ==
    IF comp_def_account[kind]
    THEN Fail(op, <<>>, "AccountAlreadyInUse")
    ELSE /\ comp_def_account' = [comp_def_account EXCEPT ![kind] = TRUE]
         /\ UNCHANGED <<user_account, message_account, private_message_account,
                        private_message_counter, sign_pda_account,
                        computation_account, settled>>
         /\ Ok(op, <<>>, <<>>)

init_test_add_comp_def ==
    init_comp_def("init_test_add_comp_def", COMP_DEF_OFFSET_TEST_ADD)

init_verify_sender_comp_def ==
    init_comp_def("init_verify_sender_comp_def",
                  COMP_DEF_OFFSET_VERIFY_AND_REVEAL_SENDER)

\* An address derived from the payer too.
CompPdaPerPayer(payer, computation_offset) == <<payer, computation_offset>>

\* An address derived without the offset.
CompPdaShared(payer, computation_offset) == <<"computation", 0>>

\* derive_comp_pda!(computation_offset, mxe_account, ..): one MXE, so the
\* address is a function of the offset alone, whoever pays and whichever
\* circuit is queued.
CompPda(payer, computation_offset) == <<"computation", computation_offset>>

IsPending(computation) == computation \in DOMAIN computation_account

PendingOffsets == {computation_account[c].computation_offset : c \in DOMAIN computation_account}

\* queue_computation refuses an offset whose computation account exists.
QueueAdmits(computation) == ~IsPending(computation)

\* The computation account queue_computation creates.
QueuedComputation(kind, computation_offset, args) ==
    [kind |-> kind, computation_offset |-> computation_offset, args |-> args]

\* The computation account is consumed by its settlement.
Discard(computation) ==
    [c \in DOMAIN computation_account \ {computation} |-> computation_account[c]]

Settle(computation, how) ==
    [c \in DOMAIN settled \cup {computation} |->
        IF c = computation THEN how ELSE settled[c]]

\* verify_output against the computation account: the output is the signed
\* output of a pending computation of this circuit.
VerifyOutput(kind, computation, signed_ok) ==
    /\ IsPending(computation)
    /\ computation_account[computation].kind = kind
    /\ signed_ok

(***************************************************************************)
(* The test circuit: test_add and its callback.                            *)
(***************************************************************************)
\* The ciphertexts of a TestInput field, named by the byte they encrypt.
TestCiphertexts == {"enc_1", "enc_255"}

to_arcis_u8(ciphertext) == IF ciphertext = "enc_255" THEN 255 ELSE 1

\* let sum = i.a as u16 + i.b as u16;
circuits_test_add(a, b) == (a + b) % 65536

BuildTestArgs(ciphertext_a, ciphertext_b, pubkey, nonce) ==
    [x25519_pubkey |-> pubkey,
     plaintext_u128 |-> nonce,
     a |-> ciphertext_a,
     b |-> ciphertext_b]

test_add(payer, computation_offset, ciphertext_a, ciphertext_b, pubkey, nonce) ==
    IF ~comp_def_account[COMP_DEF_OFFSET_TEST_ADD]
    THEN Fail("test_add", CompPda(payer, computation_offset),
              "AccountNotInitialized")
    ELSE IF ~QueueAdmits(CompPda(payer, computation_offset))
    THEN Fail("test_add", CompPda(payer, computation_offset),
              "AccountAlreadyInUse")
    ELSE /\ sign_pda_account' =
                [initialized |-> TRUE, bump |-> FindBump(<<"SignerAccount">>)]
         /\ computation_account' =
                computation_account @@
                (CompPda(payer, computation_offset) :>
                    QueuedComputation(COMP_DEF_OFFSET_TEST_ADD, computation_offset,
                        BuildTestArgs(ciphertext_a, ciphertext_b, pubkey, nonce)))
         /\ UNCHANGED <<user_account, message_account, private_message_account,
                        private_message_counter, comp_def_account, settled>>
         /\ Ok("test_add", CompPda(payer, computation_offset), <<>>)

TestAddOutput(args) ==
    [ciphertexts |->
        <<from_arcis(args.x25519_pubkey,
                     circuits_test_add(to_arcis_u8(args.a), to_arcis_u8(args.b)))>>,
     nonce |-> args.plaintext_u128]

TestAddResult(o) ==
    [name |-> "TestAddResult",
     result |-> o.ciphertexts[1],
     nonce |-> to_le_bytes(o.nonce)]

\* The accounts of TestAddCallback load, then verify_output decides.  An Err
\* reverts the transaction: the computation account stays as it was.
test_add_callback(computation, signed_ok) ==
    IF ~comp_def_account[COMP_DEF_OFFSET_TEST_ADD]
    THEN Fail("test_add_callback", computation, "AccountNotInitialized")
    ELSE IF ~VerifyOutput(COMP_DEF_OFFSET_TEST_ADD, computation, signed_ok)
    THEN Fail("test_add_callback", computation, "AbortedComputation")
    ELSE /\ computation_account' = Discard(computation)
         /\ settled' = Settle(computation, "verified")
         /\ UNCHANGED <<user_account, message_account, private_message_account,
                        private_message_counter, comp_def_account,
                        sign_pda_account>>
         /\ Ok("test_add_callback", computation,
               <<TestAddResult(TestAddOutput(computation_account[computation].args))>>)

(***************************************************************************)
(* verify_private_message_access                                           *)
(***************************************************************************)
\* ArgBuilder: x25519_pubkey, plaintext_u128, encrypted_u8, encrypted_u8.
BuildArgs(message, encrypted_requester_hash, mpc_pubkey, mpc_nonce) ==
    [x25519_pubkey |-> mpc_pubkey,
     plaintext_u128 |-> mpc_nonce,
     recipient_hash |-> private_message_account[message].encrypted_recipient_hash,
     requester_hash |-> encrypted_requester_hash]

\* private_message_account taken as mut and the requester's commitment
\* written into it.
verify_private_message_access_stamps(payer, computation_offset, message, encrypted_requester_hash, mpc_pubkey, mpc_nonce) ==
    IF message \notin DOMAIN private_message_account
    THEN Fail("verify_private_message_access", <<"computation", computation_offset>>,
              "AccountNotInitialized")
    ELSE IF ~comp_def_account["verify_and_reveal_sender"]
    THEN Fail("verify_private_message_access", <<"computation", computation_offset>>,
              "AccountNotInitialized")
    ELSE IF <<"computation", computation_offset>> \in DOMAIN computation_account
    THEN Fail("verify_private_message_access", <<"computation", computation_offset>>,
              "AccountAlreadyInUse")
    ELSE /\ sign_pda_account' = [initialized |-> TRUE, bump |-> 254]
         /\ private_message_account' =
                [private_message_account EXCEPT
                    ![message].encrypted_recipient_hash = encrypted_requester_hash]
         /\ computation_account' =
                computation_account @@
                (<<"computation", computation_offset>> :>
                    [kind |-> "verify_and_reveal_sender",
                     computation_offset |-> computation_offset,
                     args |-> [x25519_pubkey |-> mpc_pubkey,
                               plaintext_u128 |-> mpc_nonce,
                               recipient_hash |->
                                   private_message_account[message].encrypted_recipient_hash,
                               requester_hash |-> encrypted_requester_hash]])
         /\ UNCHANGED <<user_account, message_account,
                        private_message_counter, comp_def_account, settled>>
         /\ Ok("verify_private_message_access",
               <<"computation", computation_offset>>, <<>>)

\* comp_def_account taken as an UncheckedAccount: its initialisation is not
\* required.
verify_private_message_access_any_def(payer, computation_offset, message, encrypted_requester_hash, mpc_pubkey, mpc_nonce) ==
    IF message \notin DOMAIN private_message_account
    THEN Fail("verify_private_message_access", <<"computation", computation_offset>>,
              "AccountNotInitialized")
    ELSE IF <<"computation", computation_offset>> \in DOMAIN computation_account
    THEN Fail("verify_private_message_access", <<"computation", computation_offset>>,
              "AccountAlreadyInUse")
    ELSE /\ sign_pda_account' = [initialized |-> TRUE, bump |-> 254]
         /\ computation_account' =
                computation_account @@
                (<<"computation", computation_offset>> :>
                    [kind |-> "verify_and_reveal_sender",
                     computation_offset |-> computation_offset,
                     args |-> [x25519_pubkey |-> mpc_pubkey,
                               plaintext_u128 |-> mpc_nonce,
                               recipient_hash |->
                                   private_message_account[message].encrypted_recipient_hash,
                               requester_hash |-> encrypted_requester_hash]])
         /\ UNCHANGED <<user_account, message_account, private_message_account,
                        private_message_counter, comp_def_account, settled>>
         /\ Ok("verify_private_message_access",
               <<"computation", computation_offset>>, <<>>)

verify_private_message_access(payer, computation_offset, message, encrypted_requester_hash, mpc_pubkey, mpc_nonce) ==
    IF message \notin DOMAIN private_message_account
    THEN Fail("verify_private_message_access", CompPda(payer, computation_offset),
              "AccountNotInitialized")
    ELSE IF ~comp_def_account[COMP_DEF_OFFSET_VERIFY_AND_REVEAL_SENDER]
    THEN Fail("verify_private_message_access", CompPda(payer, computation_offset),
              "AccountNotInitialized")
    ELSE IF ~QueueAdmits(CompPda(payer, computation_offset))
    THEN Fail("verify_private_message_access", CompPda(payer, computation_offset),
              "AccountAlreadyInUse")
    ELSE /\ sign_pda_account' =
                [initialized |-> TRUE, bump |-> FindBump(<<"SignerAccount">>)]
         /\ computation_account' =
                computation_account @@
                (CompPda(payer, computation_offset) :>
                    QueuedComputation(COMP_DEF_OFFSET_VERIFY_AND_REVEAL_SENDER,
                        computation_offset,
                        BuildArgs(message, encrypted_requester_hash,
                                  mpc_pubkey, mpc_nonce)))
         /\ UNCHANGED <<user_account, message_account, private_message_account,
                        private_message_counter, comp_def_account, settled>>
         /\ Ok("verify_private_message_access",
               CompPda(payer, computation_offset), <<>>)

(***************************************************************************)
(* The cluster's signed output for a queued bundle, and the callback.      *)
(* computation is the address passed as computation_account; signed_ok     *)
(* tells whether the output carries a valid signature and no abort.        *)
(* The callback runs inside the transaction in which the cluster settles   *)
(* the computation: when the handler returns Ok the computation account is *)
(* consumed with it, when it returns Err the whole transaction is reverted *)
(* and the computation account stays pending.                              *)
(***************************************************************************)
\* The circuit returns input.owner.from_arcis(is_match), is_match being 0 or 1,
\* owner being the key of the bundle.  Which of the two the cluster returns
\* for a queued bundle is not a function of the commitments behind its two
\* ciphertexts: the circuit compares the 2 x 32 encrypted bytes of an
\* AccessCheck shared with the owner, while the bundle holds one
\* encrypted_u8 for each commitment (test_add passes one encrypted_u8 for
\* each u8 of its input), the first of them made by the sender for the
\* mpc_pubkey and mpc_nonce kept in the message and not for the owner's.
\* The cluster may return either value.
ClusterOutputs(args) ==
    {[ciphertexts |-> <<from_arcis(args.x25519_pubkey, value)>>,
      nonce |-> args.plaintext_u128] : value \in {0, 1}}

PrivateAccessVerified(result) ==
    [name |-> "PrivateAccessVerified",
     encrypted_result |-> result.ciphertexts[1],
     nonce |-> to_le_bytes(result.nonce)]

\* comp_def_account: Account<ComputationDefinitionAccount> is loaded before
\* the handler runs.
CallbackAccountsOk == comp_def_account[COMP_DEF_OFFSET_VERIFY_AND_REVEAL_SENDER]

CallbackVerifies(computation, signed_ok) ==
    /\ CallbackAccountsOk
    /\ VerifyOutput(COMP_DEF_OFFSET_VERIFY_AND_REVEAL_SENDER, computation, signed_ok)

\* A handler that publishes a default result when verification fails.
CallbackNoticesUnchecked(computation, signed_ok) ==
    {<<[name |-> "PrivateAccessVerified",
        encrypted_result |-> [shared_with |-> "Pa", plaintext |-> 0],
        nonce |-> <<0, 0, 0, 0, 0, 0, 0, 0, 0, 0, 0, 0, 0, 0, 0, 0>>]>>}

\* The handler: the notices it may emit, one sequence for each output the
\* cluster may hand it; <<>> with an error when it returns Err.
CallbackNotices(computation, signed_ok) ==
    IF CallbackVerifies(computation, signed_ok)
    THEN {<<PrivateAccessVerified(output)>> :
             output \in ClusterOutputs(computation_account[computation].args)}
    ELSE {<<>>}

\* A handler that swallows the verification error.
CallbackStatusSwallowed(computation, signed_ok) == "Ok"

CallbackStatus(computation, signed_ok) ==
    IF ~CallbackAccountsOk THEN "AccountNotInitialized"
    ELSE IF CallbackVerifies(computation, signed_ok) THEN "Ok"
    ELSE "AbortedComputation"

\* A callback that settles every pending computation.
verify_and_reveal_sender_callback_sweeps(computation, signed_ok) ==
    /\ outcome' = [op |-> "verify_and_reveal_sender_callback",
                   computation |-> computation,
                   status |-> CallbackStatus(computation, signed_ok)]
    /\ emitted' \in CallbackNotices(computation, signed_ok)
    /\ was_read' = FALSE
    /\ IF CallbackVerifies(computation, signed_ok)
       THEN /\ computation_account' = <<>>
            /\ settled' = Settle(computation, "verified")
       ELSE UNCHANGED <<computation_account, settled>>
    /\ UNCHANGED <<user_account, message_account, private_message_account,
                   private_message_counter, comp_def_account, sign_pda_account>>

\* A callback not bound to its computation account: given an address that
\* is not pending, it consumes a computation that is.
verify_and_reveal_sender_callback_unbound(computation, signed_ok) ==
    /\ outcome' = [op |-> "verify_and_reveal_sender_callback",
                   computation |-> computation,
                   status |-> CallbackStatus(computation, signed_ok)]
    /\ emitted' \in CallbackNotices(computation, signed_ok)
    /\ was_read' = FALSE
    /\ IF CallbackVerifies(computation, signed_ok)
       THEN /\ computation_account' = Discard(computation)
            /\ settled' = Settle(computation, "verified")
       ELSE /\ computation_account' =
                   IF IsPending(computation) \/ computation_account = <<>>
                   THEN computation_account
                   ELSE Discard(CHOOSE a \in DOMAIN computation_account : TRUE)
            /\ UNCHANGED settled
    /\ UNCHANGED <<user_account, message_account, private_message_account,
                   private_message_counter, comp_def_account, sign_pda_account>>

verify_and_reveal_sender_callback(computation, signed_ok) ==
    /\ outcome' = [op |-> "verify_and_reveal_sender_callback",
                   computation |-> computation,
                   status |-> CallbackStatus(computation, signed_ok)]
    /\ emitted' \in CallbackNotices(computation, signed_ok)
    /\ was_read' = FALSE
    /\ IF CallbackVerifies(computation, signed_ok)
       THEN /\ computation_account' = Discard(computation)
            /\ settled' = Settle(computation, "verified")
       ELSE UNCHANGED <<computation_account, settled>>
    /\ UNCHANGED <<user_account, message_account, private_message_account,
                   private_message_counter, comp_def_account, sign_pda_account>>

(***************************************************************************)
(* The paid-post program (post_msg_program).  Lamports are tracked for the *)
(* transfers its handlers make and for the rent the author pays when the   *)
(* Post account is created; a target and a content are modelled by their   *)
(* name and their length.                                                  *)
(***************************************************************************)
TREASURY_MIN_BALANCE == 890880

MIN_BID == 7000000

MAX_TARGET_LEN == 64

MAX_CONTENT_LEN == 512

\* The longest seed an address can be derived from.
MAX_SEED_LEN == 32

\* space = 8 + 32 + 4 + 64 + 4 + 512 + 8 + 8 + 1
POST_SPACE == 8 + 32 + 4 + 64 + 4 + 512 + 8 + 8 + 1

\* The rent-exempt minimum of an account of space bytes; Rent(0) is
\* TREASURY_MIN_BALANCE.
Rent(space) == (space + 128) * 6960

\* The bids offered run from MIN_BID - 1 to MIN_BID + MaxBidExtra.
MaxBidExtra == 20

\* Cap on the lamports initialize_treasury piles up, in units of
\* TREASURY_MIN_BALANCE.
MaxTopUps == 2

Bids == (MIN_BID - 1)..(MIN_BID + MaxBidExtra)

Authors == {"A"}

Targets == {"t", "u", "v", "mid", "long"}

\* "mid" stands for a target of 33 bytes, "long" for one of 65 bytes.
TargetLen(target) ==
    IF target = "long" THEN MAX_TARGET_LEN + 1
    ELSE IF target = "mid" THEN MAX_SEED_LEN + 1
    ELSE 1

PostContentLens == {MAX_CONTENT_LEN, MAX_CONTENT_LEN + 1}

RevenueWallets == <<"WALLET_1", "WALLET_2", "WALLET_3">>

\* The accounts a caller may pass as wallet_1, wallet_2, wallet_3.
WalletChoices == {RevenueWallets, <<"WALLET_1", "WALLET_3", "WALLET_2">>}

\* What an author holds at the start: two posts, rent and bid, and a
\* little more.
AuthorFunds == 2 * (Rent(POST_SPACE) + MIN_BID) + MaxBidExtra

\* seeds = [b"post", author, target]: a target longer than MAX_SEED_LEN has
\* no address, written <<>>.
PostPda(author, target) ==
    IF TargetLen(target) > MAX_SEED_LEN THEN <<>> ELSE <<author, target>>

\* treasury_balance.saturating_sub(TREASURY_MIN_BALANCE)
Distributable(treasury_balance) ==
    IF treasury_balance > TREASURY_MIN_BALANCE
    THEN treasury_balance - TREASURY_MIN_BALANCE
    ELSE 0

Amount1(distributable) == (distributable * 45) \div 100

Amount2(distributable) == (distributable * 10) \div 100

\* The third share computed as a percentage like the first.
Amount3AsShare(distributable) == (distributable * 45) \div 100

Amount3(distributable) ==
    distributable - Amount1(distributable) - Amount2(distributable)

NewPost(author, target, content, bid, now) ==
    [author |-> author,
     target |-> target,
     content |-> content,
     bid |-> bid,
     timestamp |-> now,
     bump |-> FindBump(<<"post", author, target>>)]

FailPost(op, err) ==
    /\ outcome' = [op |-> op, computation |-> <<>>, status |-> err]
    /\ emitted' = <<>>
    /\ was_read' = FALSE
    /\ UNCHANGED post_program

create_post(author, wallets, target, content, bid, now) ==
    /\ UNCHANGED <<ledger, settled>>
    /\ IF PostPda(author, target) = <<>>
       THEN FailPost("create_post", "ProgramFailedToComplete")
       ELSE IF PostPda(author, target) \in DOMAIN post
       THEN FailPost("create_post", "AccountAlreadyInUse")
       ELSE IF author_lamports[author] < Rent(POST_SPACE)
       THEN FailPost("create_post", "InsufficientFunds")
       ELSE IF wallets # RevenueWallets
       THEN FailPost("create_post", "InvalidWallet")
       ELSE IF ~(bid >= MIN_BID)
       THEN FailPost("create_post", "BidTooLow")
       ELSE IF ~(TargetLen(target) <= MAX_TARGET_LEN)
       THEN FailPost("create_post", "TargetTooLong")
       ELSE IF ~(content <= MAX_CONTENT_LEN)
       THEN FailPost("create_post", "ContentTooLong")
       ELSE IF author_lamports[author] - Rent(POST_SPACE) < bid
       THEN FailPost("create_post", "InsufficientFunds")
       ELSE LET treasury_balance == treasury + bid
                distributable == Distributable(treasury_balance)
                amount_1 == Amount1(distributable)
                amount_2 == Amount2(distributable)
                amount_3 == Amount3(distributable)
            IN /\ author_lamports' =
                      [author_lamports EXCEPT
                          ![author] = @ - Rent(POST_SPACE) - bid]
               /\ IF distributable > 0
                  THEN /\ treasury' =
                             treasury_balance - amount_1 - amount_2 - amount_3
                       /\ wallet_lamports' =
                             [wallet_lamports EXCEPT ![1] = @ + amount_1,
                                                     ![2] = @ + amount_2,
                                                     ![3] = @ + amount_3]
                  ELSE /\ treasury' = treasury_balance
                       /\ wallet_lamports' = wallet_lamports
               /\ post' = post @@ (PostPda(author, target) :>
                                      NewPost(author, target, content, bid, now))
               /\ outcome' = [op |-> "create_post", computation |-> <<>>,
                              status |-> "Ok"]
               /\ emitted' = <<>>
               /\ was_read' = FALSE

initialize_treasury(payer) ==
    /\ UNCHANGED <<ledger, settled>>
    /\ IF author_lamports[payer] < TREASURY_MIN_BALANCE
       THEN FailPost("initialize_treasury", "InsufficientFunds")
       ELSE /\ treasury + TREASURY_MIN_BALANCE <= MaxTopUps * TREASURY_MIN_BALANCE
            /\ treasury' = treasury + TREASURY_MIN_BALANCE
            /\ author_lamports' =
                  [author_lamports EXCEPT ![payer] = @ - TREASURY_MIN_BALANCE]
            /\ UNCHANGED <<wallet_lamports, post>>
            /\ outcome' = [op |-> "initialize_treasury", computation |-> <<>>,
                           status |-> "Ok"]
            /\ emitted' = <<>>
            /\ was_read' = FALSE

InitPost ==
    /\ treasury = 0
    /\ wallet_lamports = <<TREASURY_MIN_BALANCE, TREASURY_MIN_BALANCE,
                           TREASURY_MIN_BALANCE>>
    /\ author_lamports = [a \in Authors |-> AuthorFunds]
    /\ post = <<>>

(***************************************************************************)
(* The system.                                                             *)
(***************************************************************************)
Init ==
    /\ user_account = <<>>
    /\ message_account = <<>>
    /\ private_message_account = <<>>
    /\ private_message_counter = [initialized |-> FALSE, count |-> 0, bump |-> 0]
    /\ comp_def_account = [k \in CompDefs |-> FALSE]
    /\ sign_pda_account = [initialized |-> FALSE, bump |-> 0]
    /\ computation_account = <<>>
    /\ settled = <<>>
    /\ outcome = [op |-> "none", computation |-> <<>>, status |-> "Ok"]
    /\ emitted = <<>>
    /\ was_read = FALSE
    /\ recipient_hash = <<>>
    /\ requester_hash = <<>>
    /\ is_match = 1
    /\ i = 0
    /\ pc = "idle"
    /\ InitPost

\* The circuit is given any pair of commitments.
InitCircuit ==
    /\ user_account = <<>>
    /\ message_account = <<>>
    /\ private_message_account = <<>>
    /\ private_message_counter = [initialized |-> FALSE, count |-> 0, bump |-> 0]
    /\ comp_def_account = [k \in CompDefs |-> FALSE]
    /\ sign_pda_account = [initialized |-> FALSE, bump |-> 0]
    /\ computation_account = <<>>
    /\ settled = <<>>
    /\ outcome = [op |-> "none", computation |-> <<>>, status |-> "Ok"]
    /\ emitted = <<>>
    /\ was_read = FALSE
    /\ recipient_hash \in Commitments
    /\ requester_hash \in Commitments
    /\ is_match = 1
    /\ i = 0
    /\ pc = "idle"
    /\ InitPost

\* let check = input.to_arcis(): recipient_hash and requester_hash are the
\* 2 x 32 bytes of the input; let mut is_match: u8 = 1;
circuit_enter ==
    /\ pc = "idle"
    /\ is_match' = 1
    /\ i' = 0
    /\ pc' = "loop"
    /\ UNCHANGED <<recipient_hash, requester_hash, ledger, settled, outcome,
                   emitted, was_read, post_program>>

\* One iteration of the for loop.
circuit_iterate ==
    /\ pc = "loop"
    /\ i < LoopEnd
    /\ is_match' = CompareStep(is_match, recipient_hash, requester_hash, i)
    /\ i' = i + 1
    /\ UNCHANGED <<pc, recipient_hash, requester_hash, ledger, settled, outcome,
                   emitted, was_read, post_program>>

\* A loop that is left at the first difference.
circuit_return_early ==
    /\ pc = "loop"
    /\ i >= LoopEnd \/ is_match = 0
    /\ pc' = "done"
    /\ UNCHANGED <<is_match, i, recipient_hash, requester_hash, ledger,
                   settled, outcome, emitted, was_read, post_program>>

\* The loop is exhausted: input.owner.from_arcis(is_match) is returned.
circuit_return ==
    /\ pc = "loop"
    /\ i >= LoopEnd
    /\ pc' = "done"
    /\ UNCHANGED <<is_match, i, recipient_hash, requester_hash, ledger,
                   settled, outcome, emitted, was_read, post_program>>

NextCircuit == circuit_enter \/ circuit_iterate \/ circuit_return

\* The registry and the plain message store, driven by the actors in who.
RegistryNext(who, keys) ==
    \/ \E owner \in who, k \in keys :
          register_user(owner, k) /\ UNCHANGED <<circuit, post_program>>
    \/ \E owner \in who, user \in who, k \in keys :
          update_user_key(owner, user, k) /\ UNCHANGED <<circuit, post_program>>

PlainNext(who) ==
    \/ \E sender \in who, r \in who, len \in ContentLens,
          n \in Nonces, now \in Times :
          send_message(sender, r, len, n, now) /\ UNCHANGED <<circuit, post_program>>
    \/ \E reader \in who, m \in MessageSlots :
          mark_as_read(reader, m) /\ UNCHANGED <<circuit, post_program>>

PrivateSlots == Actors \X MessageIndexes

\* The confidential message store, with the senders in who.
ConfidentialNext(who) ==
    \E sender \in who, idx \in MessageIndexes, erh \in MxeCiphertexts,
       len \in ContentLens, n \in Nonces, pk \in MpcKeys,
       mn \in MpcNonces, now \in Times :
       send_private_message(sender, idx, "enc_Ea", erh, len, n, pk, mn, now)
       /\ UNCHANGED <<circuit, post_program>>

\* The access check, with the payers in who and the computation offsets in
\* offsets.
AccessNext(who, offsets) ==
    \/ init_verify_sender_comp_def /\ UNCHANGED <<circuit, post_program>>
    \/ \E payer \in who, c \in offsets, m \in PrivateSlots,
          erq \in MxeCiphertexts, pk \in MpcKeys, mn \in MpcNonces :
          verify_private_message_access(payer, c, m, erq, pk, mn)
          /\ UNCHANGED <<circuit, post_program>>
    \/ \E payer \in who, c \in offsets, signed_ok \in BOOLEAN :
          verify_and_reveal_sender_callback(CompPda(payer, c), signed_ok)
          /\ UNCHANGED <<circuit, post_program>>

\* The test circuit, with the payers in who, the computation offsets in
\* offsets and the first operand among inputs.
TestNext(who, offsets, inputs) ==
    \/ init_test_add_comp_def /\ UNCHANGED <<circuit, post_program>>
    \/ \E payer \in who, c \in offsets, a \in inputs,
          pk \in MpcKeys, mn \in MpcNonces :
          test_add(payer, c, a, "enc_255", pk, mn)
          /\ UNCHANGED <<circuit, post_program>>
    \/ \E payer \in who, c \in offsets, signed_ok \in BOOLEAN :
          test_add_callback(CompPda(payer, c), signed_ok)
          /\ UNCHANGED <<circuit, post_program>>

\* The whole program: one participant drives the registry and the plain
\* store, one computation offset is in use.
Next ==
    \/ RegistryNext({"A"}, {"Ka"})
    \/ PlainNext({"A"})
    \/ ConfidentialNext({"A"})
    \/ TestNext({"A"}, {0}, TestCiphertexts)
    \/ AccessNext({"A"}, {0})

\* The registry and the plain message store with every actor.
NextMessaging == RegistryNext(Actors, Keys) \/ PlainNext(Actors)

\* The confidential store and the access check with every offset.
NextAccess == ConfidentialNext(Actors) \/ AccessNext(Actors, Offsets)

\* The whole program driven by one participant, with every computation
\* offset of the access check; the test circuit shares offset 0 with it.
NextLifecycle ==
    \/ RegistryNext({"A"}, {"Ka"})
    \/ PlainNext({"A"})
    \/ ConfidentialNext({"A"})
    \/ TestNext({"A"}, {0}, {"enc_255"})
    \/ AccessNext({"A"}, Offsets)

\* The plain message store with every actor, each with one key.
NextReading == RegistryNext(Actors, {"Ka"}) \/ PlainNext(Actors)

\* The paid-post program.
NextPost ==
    \/ \E author \in Authors, wallets \in WalletChoices, target \in Targets,
          content \in PostContentLens, bid \in Bids, now \in Times :
          create_post(author, wallets, target, content, bid, now)
          /\ UNCHANGED circuit
    \/ \E payer \in Authors : initialize_treasury(payer) /\ UNCHANGED circuit

Spec == Init /\ [][Next]_vars

SpecPost == Init /\ [][NextPost]_vars

SpecReading == Init /\ [][NextReading]_vars

SpecLifecycle == Init /\ [][NextLifecycle]_vars

SpecMessaging == Init /\ [][NextMessaging]_vars

SpecAccess == Init /\ [][NextAccess]_vars

SpecCircuit == InitCircuit /\ [][NextCircuit]_vars

(***************************************************************************)
(* C1.  For every pair of 32-byte commitments the circuit returns 1 if and *)
(* only if the two agree at all 32 positions, and 0 for every pair that    *)
(* differs somewhere, the last byte included.                              *)
(***************************************************************************)
SameCommitment(a, b) == \A k \in 1..HASH_LEN : a[k] = b[k]

C1_EqualityIffAllBytesMatch ==
    pc = "done" =>
        /\ is_match \in {0, 1}
        /\ (is_match = 1) <=> SameCommitment(recipient_hash, requester_hash)

C1_Witness ==
    /\ pc = "done"
    /\ is_match = 0
    /\ recipient_hash[HASH_LEN] # requester_hash[HASH_LEN]
    /\ \A k \in 1..(HASH_LEN - 1) : recipient_hash[k] = requester_hash[k]

(***************************************************************************)
(* C2.  A verify_private_message_access whose computation offset is still  *)
(* pending fails, queues nothing and leaves the pending computations as     *)
(* they were, whatever requests and callbacks came before.                  *)
(***************************************************************************)
IsRequest == outcome'.op = "verify_private_message_access"

IsCallback == outcome'.op = "verify_and_reveal_sender_callback"

C2_PendingIdRejected ==
    [][IsRequest =>
        \A payer \in Actors, c \in Offsets, m \in PrivateSlots,
           erq \in MxeCiphertexts, pk \in MpcKeys, mn \in MpcNonces :
           (/\ c \in PendingOffsets
            /\ verify_private_message_access(payer, c, m, erq, pk, mn))
           => /\ outcome'.status # "Ok"
              /\ computation_account' = computation_account
              /\ emitted' = <<>>]_vars

C2_Witness ==
    /\ outcome.op = "verify_private_message_access"
    /\ outcome.status = "AccountAlreadyInUse"
    /\ IsPending(outcome.computation)

(***************************************************************************)
(* C3.  Once a pending computation has been settled by its callback, by a   *)
(* verified result or by an abort, its offset is free again: a new request  *)
(* with that offset is accepted and is pending afterwards.                  *)
(***************************************************************************)
RequestAdmissible(m) ==
    /\ m \in DOMAIN private_message_account
    /\ comp_def_account[COMP_DEF_OFFSET_VERIFY_AND_REVEAL_SENDER]

C3_SettledIdReusable ==
    [][/\ IsCallback =>
            \A p \in Actors, c \in Offsets, ok \in BOOLEAN :
               (/\ IsPending(CompPda(p, c))
                /\ verify_and_reveal_sender_callback(CompPda(p, c), ok))
               => /\ CompPda(p, c) \in DOMAIN settled'
                  /\ CompPda(p, c) \notin DOMAIN computation_account'
       /\ IsRequest =>
            \A payer \in Actors, c \in Offsets, m \in PrivateSlots,
               erq \in MxeCiphertexts, pk \in MpcKeys, mn \in MpcNonces :
               (/\ CompPda(payer, c) \in DOMAIN settled
                /\ c \notin PendingOffsets
                /\ RequestAdmissible(m)
                /\ verify_private_message_access(payer, c, m, erq, pk, mn))
               => /\ outcome'.status = "Ok"
                  /\ CompPda(payer, c) \in DOMAIN computation_account'
                  /\ computation_account'[CompPda(payer, c)].computation_offset = c]_vars

(***************************************************************************)
(* C4.  A pending computation is consumed exactly once.  A callback whose    *)
(* output verifies for a pending computation removes it and emits exactly   *)
(* one access-result notice; every other callback, one for a computation    *)
(* that is not pending included, fails, changes nothing and emits nothing;  *)
(* and an access-result notice appears only in a step that consumes one     *)
(* pending computation.                                                     *)
(***************************************************************************)
HasAccessResult(notices) ==
    Len(notices) = 1 /\ notices[1].name = "PrivateAccessVerified"

C4_ConsumedExactlyOnce ==
    [][/\ IsCallback =>
            \A p \in Actors, c \in Offsets, ok \in BOOLEAN :
               verify_and_reveal_sender_callback(CompPda(p, c), ok)
               => IF IsPending(CompPda(p, c)) /\ ok
                  THEN /\ CompPda(p, c) \notin DOMAIN computation_account'
                       /\ outcome'.status = "Ok"
                       /\ HasAccessResult(emitted')
                  ELSE /\ emitted' = <<>>
                       /\ outcome'.status # "Ok"
                       /\ UNCHANGED ledger
       /\ HasAccessResult(emitted')
            => \E a \in DOMAIN computation_account :
                  DOMAIN computation_account' = DOMAIN computation_account \ {a}]_vars

C4_Witness ==
    /\ outcome.op = "verify_and_reveal_sender_callback"
    /\ outcome.status = "AbortedComputation"
    /\ outcome.computation \in DOMAIN settled
    /\ settled[outcome.computation] = "verified"
    /\ ~IsPending(outcome.computation)
    /\ emitted = <<>>

(***************************************************************************)
(* C5.  When the callback's verification of the signed output fails for a   *)
(* pending computation, the callback ends with AbortedComputation, emits no *)
(* notice, and the computation is no longer pending.                        *)
(***************************************************************************)
C5_AbortDiscards ==
    [][IsCallback =>
        \A p \in Actors, c \in Offsets :
           (/\ IsPending(CompPda(p, c))
            /\ verify_and_reveal_sender_callback(CompPda(p, c), FALSE))
           => /\ outcome'.status = "AbortedComputation"
              /\ emitted' = <<>>
              /\ CompPda(p, c) \notin DOMAIN computation_account']_vars

(***************************************************************************)
(* C6.  Every notice of the confidential-message lifecycle carries either   *)
(* an index and a timestamp, or a result encrypted for the requester and    *)
(* its nonce, and nothing else; a failing instruction and the request emit  *)
(* nothing.                                                                 *)
(***************************************************************************)
RequesterCiphertexts == {from_arcis(pk, b) : pk \in MpcKeys, b \in {0, 1}}

NonceBytes == {to_le_bytes(mn) : mn \in MpcNonces}

C6_NoticesCarryNoIdentity ==
    /\ \A k \in 1..Len(emitted) :
          \/ /\ emitted[k].name = "PrivateMessageSent"
             /\ DOMAIN emitted[k] = {"name", "message_index", "timestamp"}
             /\ emitted[k].message_index \in MessageIndexes
             /\ emitted[k].timestamp \in Times
             /\ outcome.op = "send_private_message"
          \/ /\ emitted[k].name = "PrivateAccessVerified"
             /\ DOMAIN emitted[k] = {"name", "encrypted_result", "nonce"}
             /\ emitted[k].encrypted_result \in RequesterCiphertexts
             /\ emitted[k].nonce \in NonceBytes
             /\ outcome.op = "verify_and_reveal_sender_callback"
    /\ outcome.status # "Ok" => emitted = <<>>
    /\ outcome.op = "verify_private_message_access" => emitted = <<>>

C6_Witness ==
    /\ outcome.op = "verify_and_reveal_sender_callback"
    /\ HasAccessResult(emitted)
    /\ emitted[1].encrypted_result.plaintext = 1

(***************************************************************************)
(* C7.  Two confidential sends that differ only in the sender leave the     *)
(* same trace on the ledger: two stored messages with the same index and    *)
(* the same fields occupy the same storage slot.                            *)
(***************************************************************************)
SlotIndex(slot) == slot[2]

C7_SenderIndistinguishable ==
    \A s1 \in DOMAIN private_message_account, s2 \in DOMAIN private_message_account :
        (/\ SlotIndex(s1) = SlotIndex(s2)
         /\ private_message_account[s1] = private_message_account[s2])
        => s1 = s2

(***************************************************************************)
(* C8.  A register_user for an owner who already has a UserAccount fails    *)
(* and leaves every UserAccount unchanged; a register_user that succeeds    *)
(* creates the owner's account with message_count 0; and no two accounts    *)
(* belong to one owner.                                                     *)
(***************************************************************************)
OneIdentityPerOwner ==
    \A a \in DOMAIN user_account, b \in DOMAIN user_account :
        user_account[a].wallet = user_account[b].wallet => a = b

C8_RegisterOnce ==
    [][/\ outcome'.op = "register_user" =>
            \A owner \in Actors, k \in Keys :
               register_user(owner, k)
               => IF owner \in {user_account[a].wallet : a \in DOMAIN user_account}
                  THEN /\ outcome'.status # "Ok"
                       /\ user_account' = user_account
                  ELSE /\ outcome'.status = "Ok"
                       /\ user_account'[UserPda(owner)].wallet = owner
                       /\ user_account'[UserPda(owner)].x25519_pubkey = k
                       /\ user_account'[UserPda(owner)].message_count = 0
       /\ OneIdentityPerOwner
       /\ OneIdentityPerOwner']_vars

C8_Witness ==
    /\ outcome.op = "register_user"
    /\ outcome.status = "AccountAlreadyInUse"
    /\ \E a \in DOMAIN user_account : user_account[a].message_count > 0

(***************************************************************************)
(* C9.  update_user_key on the account of owner O succeeds only for caller  *)
(* O: another caller fails and leaves the accounts unchanged; a call by O   *)
(* replaces the key and nothing else; and no step of any instruction        *)
(* changes or removes the wallet of an existing account.                    *)
(***************************************************************************)
C9_OnlyOwnerRotates ==
    [][/\ outcome'.op = "update_user_key" =>
            \A caller \in Actors, user \in DOMAIN user_account, k \in Keys :
               update_user_key(caller, user, k)
               => IF caller # user_account[user].wallet
                  THEN /\ outcome'.status # "Ok"
                       /\ user_account' = user_account
                  ELSE /\ outcome'.status = "Ok"
                       /\ user_account' =
                              [user_account EXCEPT ![user].x25519_pubkey = k]
       /\ \A a \in DOMAIN user_account :
            /\ a \in DOMAIN user_account'
            /\ user_account'[a].wallet = user_account[a].wallet]_vars

C9_Witness ==
    /\ outcome.op = "update_user_key"
    /\ outcome.status = "ConstraintSeeds"
    /\ Cardinality(DOMAIN user_account) = 2

(***************************************************************************)
(* C10.  As stated: a send_message or send_private_message with more than   *)
(* 256 bytes of content always fails with MessageTooLong, and one with      *)
(* exactly 256 bytes succeeds when the recipient is registered and the      *)
(* storage slot is unused.                                                  *)
(***************************************************************************)
PlainSendValid(sender, r) ==
    /\ r \in DOMAIN user_account
    /\ SendMessageSlot(sender, r) \notin DOMAIN message_account

PrivateSendValid(sender, idx) ==
    PrivateMessagePda(sender, idx) \notin DOMAIN private_message_account

C10_OversizedAlwaysMessageTooLong ==
    [][/\ outcome'.op = "send_message" =>
            \A sender \in Actors, r \in Actors, len \in ContentLens,
               n \in Nonces, now \in Times :
               send_message(sender, r, len, n, now)
               => /\ len > MAX_MESSAGE_SIZE => outcome'.status = "MessageTooLong"
                  /\ (len = MAX_MESSAGE_SIZE /\ PlainSendValid(sender, r))
                        => outcome'.status = "Ok"
       /\ outcome'.op = "send_private_message" =>
            \A sender \in Actors, idx \in MessageIndexes, esh \in MxeCiphertexts,
               erh \in MxeCiphertexts, len \in ContentLens, n \in Nonces,
               pk \in MpcKeys, mn \in MpcNonces, now \in Times :
               send_private_message(sender, idx, esh, erh, len, n, pk, mn, now)
               => /\ len > MAX_MESSAGE_SIZE => outcome'.status = "MessageTooLong"
                  /\ (len = MAX_MESSAGE_SIZE /\ PrivateSendValid(sender, idx))
                        => outcome'.status = "Ok"]_vars

(***************************************************************************)
(* C10, amended.  A send with more than 256 bytes of content always fails:  *)
(* with MessageTooLong when the recipient is registered and the storage     *)
(* slot is unused, and with the account-validation error otherwise, which   *)
(* is raised before the handler's length check.  A send with exactly 256    *)
(* bytes succeeds when the recipient is registered and the slot is unused.  *)
(***************************************************************************)
C10_OversizedAlwaysFails ==
    [][/\ outcome'.op = "send_message" =>
            \A sender \in Actors, r \in Actors, len \in ContentLens,
               n \in Nonces, now \in Times :
               send_message(sender, r, len, n, now)
               => /\ len > MAX_MESSAGE_SIZE =>
                       /\ outcome'.status # "Ok"
                       /\ PlainSendValid(sender, r)
                             <=> outcome'.status = "MessageTooLong"
                  /\ (len = MAX_MESSAGE_SIZE /\ PlainSendValid(sender, r))
                        => outcome'.status = "Ok"
       /\ outcome'.op = "send_private_message" =>
            \A sender \in Actors, idx \in MessageIndexes, esh \in MxeCiphertexts,
               erh \in MxeCiphertexts, len \in ContentLens, n \in Nonces,
               pk \in MpcKeys, mn \in MpcNonces, now \in Times :
               send_private_message(sender, idx, esh, erh, len, n, pk, mn, now)
               => /\ len > MAX_MESSAGE_SIZE =>
                       /\ outcome'.status # "Ok"
                       /\ PrivateSendValid(sender, idx)
                             <=> outcome'.status = "MessageTooLong"
                  /\ (len = MAX_MESSAGE_SIZE /\ PrivateSendValid(sender, idx))
                        => outcome'.status = "Ok"]_vars

C10_Witness ==
    /\ outcome.op = "send_private_message"
    /\ outcome.status = "MessageTooLong"
    /\ \E m \in DOMAIN message_account :
          message_account[m].encrypted_content = MAX_MESSAGE_SIZE
    /\ \E m \in DOMAIN private_message_account :
          private_message_account[m].encrypted_content = MAX_MESSAGE_SIZE

(***************************************************************************)
(* C11.  A send_message or send_private_message whose content is longer    *)
(* than 256 bytes fails and leaves the whole store as it was: no message   *)
(* account is created, no message_count and no PrivateMessageCounter       *)
(* changes (the counter is not created either), and no notice is emitted.  *)
(***************************************************************************)
Oversized == {len \in ContentLens : len > MAX_MESSAGE_SIZE}

C11_OversizedSendChangesNothing ==
    [][/\ outcome'.op = "send_message" =>
            \A sender \in Actors, r \in Actors, len \in Oversized,
               n \in Nonces, now \in Times :
               send_message(sender, r, len, n, now)
               => /\ outcome'.status # "Ok"
                  /\ message_account' = message_account
                  /\ user_account' = user_account
                  /\ private_message_counter' = private_message_counter
                  /\ UNCHANGED ledger
                  /\ emitted' = <<>>
       /\ outcome'.op = "send_private_message" =>
            \A sender \in Actors, idx \in MessageIndexes, esh \in MxeCiphertexts,
               erh \in MxeCiphertexts, len \in Oversized, n \in Nonces,
               pk \in MpcKeys, mn \in MpcNonces, now \in Times :
               send_private_message(sender, idx, esh, erh, len, n, pk, mn, now)
               => /\ outcome'.status # "Ok"
                  /\ private_message_account' = private_message_account
                  /\ private_message_counter' = private_message_counter
                  /\ user_account' = user_account
                  /\ UNCHANGED ledger
                  /\ emitted' = <<>>]_vars

C11_Witness ==
    /\ outcome.op = "send_private_message"
    /\ outcome.status = "MessageTooLong"
    /\ ~private_message_counter.initialized
    /\ private_message_account = <<>>
    /\ emitted = <<>>

(***************************************************************************)
(* C12.  mark_as_read on a stored message by anyone but its recipient      *)
(* fails with Unauthorized, leaves the read flag and the rest of the store *)
(* unchanged and emits no notice.                                          *)
(***************************************************************************)
C12_OnlyRecipientMarks ==
    [][outcome'.op = "mark_as_read" =>
        \A reader \in Actors, m \in DOMAIN message_account :
           (/\ message_account[m].recipient # reader
            /\ mark_as_read(reader, m))
           => /\ outcome'.status = "Unauthorized"
              /\ message_account'[m].is_read = message_account[m].is_read
              /\ UNCHANGED ledger
              /\ emitted' = <<>>]_vars

C12_Witness ==
    /\ outcome.op = "mark_as_read"
    /\ outcome.status = "Unauthorized"
    /\ emitted = <<>>
    /\ \E m \in DOMAIN message_account : ~message_account[m].is_read

(***************************************************************************)
(* C13.  mark_as_read by the recipient always succeeds and sets the read   *)
(* flag, changing nothing else; on a message that is already read it       *)
(* succeeds again and leaves the store identical.                          *)
(***************************************************************************)
C13_MarkReadIdempotent ==
    [][outcome'.op = "mark_as_read" =>
        \A reader \in Actors, m \in DOMAIN message_account :
           (/\ message_account[m].recipient = reader
            /\ mark_as_read(reader, m))
           => /\ outcome'.status = "Ok"
              /\ message_account' = [message_account EXCEPT ![m].is_read = TRUE]
              /\ UNCHANGED <<user_account, private_message_account,
                             private_message_counter, comp_def_account,
                             sign_pda_account, computation_account>>
              /\ message_account[m].is_read => UNCHANGED ledger]_vars

C13_Witness ==
    /\ outcome.op = "mark_as_read"
    /\ outcome.status = "Ok"
    /\ was_read
    /\ \E m \in DOMAIN message_account : message_account[m].is_read

(***************************************************************************)
(* C14.  A send_private_message by a sender with a message_index under     *)
(* which that sender has already stored a message fails with the account   *)
(* collision; the stored messages are unchanged, the PrivateMessageCounter *)
(* is not incremented and no notice is emitted.                            *)
(***************************************************************************)
C14_DuplicateIndexCollides ==
    [][outcome'.op = "send_private_message" =>
        \A sender \in Actors, idx \in MessageIndexes, esh \in MxeCiphertexts,
           erh \in MxeCiphertexts, len \in ContentLens, n \in Nonces,
           pk \in MpcKeys, mn \in MpcNonces, now \in Times :
           (/\ <<sender, idx>> \in DOMAIN private_message_account
            /\ send_private_message(sender, idx, esh, erh, len, n, pk, mn, now))
           => /\ outcome'.status = "AccountAlreadyInUse"
              /\ private_message_account' = private_message_account
              /\ private_message_counter' = private_message_counter
              /\ UNCHANGED ledger
              /\ emitted' = <<>>]_vars

C14_Witness ==
    /\ outcome.op = "send_private_message"
    /\ outcome.status = "AccountAlreadyInUse"
    /\ emitted = <<>>
    /\ \E idx \in MessageIndexes :
          /\ <<"A", idx>> \in DOMAIN private_message_account
          /\ <<"B", idx>> \in DOMAIN private_message_account
    /\ private_message_counter.count = 2

(***************************************************************************)
(* C15.  The PrivateMessageCounter equals the number of                    *)
(* PrivateMessageAccounts in every state; a successful send_private_message *)
(* adds exactly 1 to it and no other instruction, failing or not, changes  *)
(* it.                                                                     *)
(***************************************************************************)
PrivateMessages == Cardinality(DOMAIN private_message_account)

C15_CounterCountsMessages ==
    [][/\ private_message_counter.count = PrivateMessages
       /\ private_message_counter'.count = PrivateMessages'
       /\ IF outcome'.op = "send_private_message" /\ outcome'.status = "Ok"
          THEN private_message_counter'.count = private_message_counter.count + 1
          ELSE private_message_counter'.count = private_message_counter.count]_vars

C15_Witness ==
    /\ private_message_counter.count = 2
    /\ PrivateMessages = 2
    /\ outcome.op = "send_message"
    /\ outcome.status = "Ok"
    /\ IsPending(<<"computation", 0>>)
    /\ <<"computation", 0>> \in DOMAIN settled

(***************************************************************************)
(* C16.  As stated: the message_index of the PrivateMessageSent notices    *)
(* increases strictly from one successful send to the next.  Every stored  *)
(* message was announced with the index of its slot, so the notice of a    *)
(* successful send must carry an index above the index of every message    *)
(* stored before it.                                                       *)
(***************************************************************************)
C16_NoticeIndexIncreases ==
    [][(outcome'.op = "send_private_message" /\ outcome'.status = "Ok")
        => \A s \in DOMAIN private_message_account :
              emitted'[1].message_index > SlotIndex(s)]_vars

(***************************************************************************)
(* C16, amended.  The notice of a successful send_private_message carries  *)
(* the message_index the caller supplied, which is the index of the slot   *)
(* just created: one sender never announces the same index twice, and the  *)
(* number that increases with every successful send is the                 *)
(* PrivateMessageCounter, which the notice does not carry.                 *)
(***************************************************************************)
C16_NoticeCarriesCallerIndex ==
    [][outcome'.op = "send_private_message" =>
        \A sender \in Actors, idx \in MessageIndexes, esh \in MxeCiphertexts,
           erh \in MxeCiphertexts, len \in ContentLens, n \in Nonces,
           pk \in MpcKeys, mn \in MpcNonces, now \in Times :
           (/\ send_private_message(sender, idx, esh, erh, len, n, pk, mn, now)
            /\ outcome'.status = "Ok")
           => /\ Len(emitted') = 1
              /\ emitted'[1].message_index = idx
              /\ <<sender, idx>> \notin DOMAIN private_message_account
              /\ <<sender, idx>> \in DOMAIN private_message_account'
              /\ private_message_counter'.count > private_message_counter.count]_vars

C16_Witness ==
    /\ outcome.op = "send_private_message"
    /\ outcome.status = "Ok"
    /\ emitted[1].message_index = 0
    /\ \E s \in DOMAIN private_message_account : SlotIndex(s) = 7

(***************************************************************************)
(* C17.  While the verify_and_reveal_sender definition is not initialised, *)
(* every verify_private_message_access fails with AccountNotInitialized    *)
(* and queues nothing; once init_verify_sender_comp_def has succeeded the  *)
(* definition stays initialised, and a request for a stored message with a *)
(* free offset is accepted and pending.                                    *)
(***************************************************************************)
HasVerifyDef == comp_def_account[COMP_DEF_OFFSET_VERIFY_AND_REVEAL_SENDER]

C17_DefinitionRequired ==
    [][/\ IsRequest =>
            \A payer \in Actors, c \in Offsets, m \in PrivateSlots,
               erq \in MxeCiphertexts, pk \in MpcKeys, mn \in MpcNonces :
               verify_private_message_access(payer, c, m, erq, pk, mn)
               => /\ ~HasVerifyDef =>
                       /\ outcome'.status = "AccountNotInitialized"
                       /\ computation_account' = computation_account
                       /\ UNCHANGED ledger
                  /\ (/\ HasVerifyDef
                      /\ m \in DOMAIN private_message_account
                      /\ c \notin PendingOffsets)
                     => /\ outcome'.status = "Ok"
                        /\ IsPending(CompPda(payer, c))'
       /\ outcome'.op = "init_verify_sender_comp_def" =>
            (~HasVerifyDef => outcome'.status = "Ok" /\ HasVerifyDef')
       /\ HasVerifyDef => HasVerifyDef']_vars

C17_Witness ==
    /\ outcome.op = "verify_private_message_access"
    /\ outcome.status = "AccountNotInitialized"
    /\ ~HasVerifyDef
    /\ private_message_account # <<>>
    /\ computation_account = <<>>

(***************************************************************************)
(* C18.  End to end, for a request against a stored message whose          *)
(* recipient commitment is Eb: an accepted request queues the recipient    *)
(* ciphertext stored in the message and the requester ciphertext the       *)
(* caller supplied, for the caller's key; the notice of a verified result  *)
(* then decrypts, for that key, to 1 exactly when the commitment behind    *)
(* the supplied ciphertext equals the one behind the stored ciphertext     *)
(* (supplying Eb gives 1) and to 0 otherwise (supplying Ea gives 0).       *)
(* The program does not ensure it: see ClusterOutputs.                     *)
(***************************************************************************)
\* The commitment from which a client made a ciphertext, off chain.
CommitmentOf(ciphertext) == IF ciphertext = "enc_Ea" THEN Ea ELSE Eb

Decrypts(notice, owner) ==
    IF notice.encrypted_result.shared_with = owner
    THEN notice.encrypted_result.plaintext
    ELSE -1

IsPendingAccess(computation) ==
    /\ IsPending(computation)
    /\ computation_account[computation].kind = COMP_DEF_OFFSET_VERIFY_AND_REVEAL_SENDER

OthersKept(computation) ==
    \A other \in DOMAIN computation_account \ {computation} :
        /\ other \in DOMAIN computation_account'
        /\ computation_account'[other] = computation_account[other]

C19_DistinctIdsIndependent ==
    [][/\ IsCallback =>
            \A p \in Actors, c \in Offsets, ok \in BOOLEAN :
               verify_and_reveal_sender_callback(CompPda(p, c), ok)
               => /\ OthersKept(CompPda(p, c))
                  /\ DOMAIN computation_account' \subseteq DOMAIN computation_account
                  /\ (IsPending(CompPda(p, c)) /\ ok)
                        => CompPda(p, c) \notin DOMAIN computation_account'
       /\ IsRequest =>
            \A payer \in Actors, c \in Offsets, m \in PrivateSlots,
               erq \in MxeCiphertexts, pk \in MpcKeys, mn \in MpcNonces :
               (/\ c \notin PendingOffsets
                /\ RequestAdmissible(m)
                /\ verify_private_message_access(payer, c, m, erq, pk, mn))
               => /\ outcome'.status = "Ok"
                  /\ OthersKept(CompPda(payer, c))
                  /\ DOMAIN computation_account' =
                        DOMAIN computation_account \cup {CompPda(payer, c)}]_vars

C19_Witness ==
    /\ outcome.op = "verify_and_reveal_sender_callback"
    /\ outcome.status = "Ok"
    /\ outcome.computation = <<"computation", 1>>
    /\ ~IsPending(<<"computation", 1>>)
    /\ IsPending(<<"computation", 0>>)
    /\ <<"computation", 0>> \notin DOMAIN settled

(***************************************************************************)
(* C20.  A pending computation stops being pending only in a step of the   *)
(* callback of its circuit that was given its address: every other         *)
(* instruction, the callback of another circuit, and a callback given      *)
(* another address, leave it pending and unchanged, so it stays pending    *)
(* for as long as no callback for it arrives.                              *)
(***************************************************************************)
CallbackOf(kind) ==
    IF kind = COMP_DEF_OFFSET_TEST_ADD
    THEN "test_add_callback"
    ELSE "verify_and_reveal_sender_callback"

C20_OnlyCallbackSettles ==
    [][\A a \in DOMAIN computation_account :
          \/ /\ a \in DOMAIN computation_account'
             /\ computation_account'[a] = computation_account[a]
          \/ /\ outcome'.op = CallbackOf(computation_account[a].kind)
             /\ outcome'.computation = a]_vars

C20_Witness ==
    /\ IsPending(<<"computation", 0>>)
    /\ <<"computation", 0>> \notin DOMAIN settled
    /\ outcome.op = "verify_and_reveal_sender_callback"
    /\ outcome.computation = <<"computation", 1>>
    /\ outcome.status = "AbortedComputation"
    /\ <<"computation", 1>> \notin DOMAIN settled
    /\ private_message_counter.count = 2
    /\ \E m \in DOMAIN message_account : message_account[m].is_read

(***************************************************************************)
(* C21.  A successful send_message from S to the registered recipient R    *)
(* whose message_count is n creates exactly one MessageAccount, at the     *)
(* slot (S, R, n), with sender S, recipient R and is_read false, and sets  *)
(* R's message_count to n + 1; every other UserAccount, every other        *)
(* message and the PrivateMessageCounter are unchanged, and the             *)
(* message_count of a user equals the number of messages stored for it.    *)
(***************************************************************************)
MessagesFor(accounts, wallet) ==
    Cardinality({m \in DOMAIN accounts : accounts[m].recipient = wallet})

C21_SendCreatesOneMessage ==
    [][/\ outcome'.op = "send_message" =>
            \A sender \in Actors, r \in Actors, len \in ContentLens,
               n \in Nonces, now \in Times :
               (/\ send_message(sender, r, len, n, now)
                /\ outcome'.status = "Ok")
               => LET slot == <<sender, user_account[r].wallet,
                                user_account[r].message_count>>
                  IN /\ slot \notin DOMAIN message_account
                     /\ DOMAIN message_account' = DOMAIN message_account \cup {slot}
                     /\ message_account'[slot].sender = sender
                     /\ message_account'[slot].recipient = user_account[r].wallet
                     /\ message_account'[slot].is_read = FALSE
                     /\ message_account'[slot].encrypted_content = len
                     /\ message_account'[slot].nonce = n
                     /\ message_account'[slot].timestamp = now
                     /\ \A m \in DOMAIN message_account :
                           message_account'[m] = message_account[m]
                     /\ user_account' =
                           [user_account EXCEPT ![r].message_count = @ + 1]
                     /\ UNCHANGED <<private_message_account, private_message_counter,
                                    comp_def_account, sign_pda_account,
                                    computation_account>>
       /\ \A u \in DOMAIN user_account' :
             user_account'[u].message_count
                = MessagesFor(message_account', user_account'[u].wallet)]_vars

C21_Witness ==
    /\ outcome.op = "send_message"
    /\ outcome.status = "Ok"
    /\ DOMAIN user_account = {"A", "B"}
    /\ user_account["A"].message_count = 0
    /\ user_account["B"].message_count = 2
    /\ <<"A", "B", 0>> \in DOMAIN message_account
    /\ <<"B", "B", 1>> \in DOMAIN message_account

(***************************************************************************)
(* C22.  Plain sends never collide: for every sender and every registered  *)
(* recipient the slot (sender, recipient, message_count) is unused in      *)
(* every state, so no send_message fails because its slot exists, and a    *)
(* send leaves every stored message in place.                              *)
(***************************************************************************)
NextSlotFree(users, accounts) ==
    \A sender \in Actors, r \in DOMAIN users :
        <<sender, users[r].wallet, users[r].message_count>> \notin DOMAIN accounts

C22_PlainSendsNeverCollide ==
    [][/\ NextSlotFree(user_account, message_account)
       /\ NextSlotFree(user_account', message_account')
       /\ outcome'.op = "send_message" =>
            /\ outcome'.status # "AccountAlreadyInUse"
            /\ \A m \in DOMAIN message_account :
                  /\ m \in DOMAIN message_account'
                  /\ message_account'[m] = message_account[m]]_vars

C22_Witness ==
    /\ outcome.op = "send_message"
    /\ outcome.status = "Ok"
    /\ <<"A", "B", 0>> \in DOMAIN message_account
    /\ <<"A", "B", 1>> \in DOMAIN message_account

(***************************************************************************)
(* C23.  The message_index of the MessageSent notice is the count          *)
(* component of the slot (sender, recipient, count) under which the        *)
(* message of that send was stored.                                        *)
(***************************************************************************)
SlotCount(slot) == slot[3]

C23_NoticeIndexLocatesMessage ==
    [][(outcome'.op = "send_message" /\ outcome'.status = "Ok")
        => \E m \in DOMAIN message_account' \ DOMAIN message_account :
              emitted'[1].message_index = SlotCount(m)]_vars

(***************************************************************************)
(* C24.  A stored MessageAccount is never removed, and its sender,         *)
(* recipient, content, nonce and timestamp never change; is_read never     *)
(* goes back to false, and it changes only in a successful mark_as_read of *)
(* that message by its recipient.                                          *)
(***************************************************************************)
C24_PlainMessageImmutable ==
    [][message_account' # message_account =>
       \A m \in DOMAIN message_account :
          /\ m \in DOMAIN message_account'
          /\ message_account'[m].sender = message_account[m].sender
          /\ message_account'[m].recipient = message_account[m].recipient
          /\ message_account'[m].encrypted_content = message_account[m].encrypted_content
          /\ message_account'[m].nonce = message_account[m].nonce
          /\ message_account'[m].timestamp = message_account[m].timestamp
          /\ message_account[m].is_read => message_account'[m].is_read
          /\ message_account'[m].is_read # message_account[m].is_read
                => /\ outcome'.op = "mark_as_read"
                   /\ outcome'.status = "Ok"
                   /\ mark_as_read(message_account[m].recipient, m)]_vars

C24_Witness ==
    /\ outcome.op = "update_user_key"
    /\ outcome.status = "Ok"
    /\ \E m \in DOMAIN message_account : message_account[m].is_read
    /\ \E m \in DOMAIN message_account : ~message_account[m].is_read
    /\ \E u \in DOMAIN user_account : user_account[u].x25519_pubkey = "Kb"

(***************************************************************************)
(* C25.  A stored PrivateMessageAccount is never changed or removed by any *)
(* instruction.  verify_private_message_access and the callback leave the  *)
(* private messages, the users, the plain messages and the                 *)
(* PrivateMessageCounter unchanged: the request changes only the signer    *)
(* account and the computation accounts and emits no notice.               *)
(***************************************************************************)
C25_PrivateMessageImmutable ==
    [][/\ \A m \in DOMAIN private_message_account :
             /\ m \in DOMAIN private_message_account'
             /\ private_message_account'[m] = private_message_account[m]
       /\ (IsRequest \/ IsCallback)
             => UNCHANGED <<user_account, message_account, private_message_account,
                            private_message_counter, comp_def_account>>
       /\ IsRequest => emitted' = <<>>
       /\ IsCallback => sign_pda_account' = sign_pda_account]_vars

C25_Witness ==
    /\ outcome.op = "verify_private_message_access"
    /\ outcome.status = "Ok"
    /\ sign_pda_account.initialized
    /\ Cardinality(DOMAIN private_message_account) = 2
    /\ private_message_counter.count = 2
    /\ user_account # <<>>
    /\ message_account # <<>>
    /\ <<"computation", 0>> \in DOMAIN settled

(***************************************************************************)
(* C26.  The comparison has no early exit: whatever the two commitments    *)
(* are, and wherever they first differ, the circuit returns after exactly  *)
(* 32 iterations of the loop.                                              *)
(***************************************************************************)
C26_AlwaysAllBytes ==
    /\ pc = "done" => i = HASH_LEN
    /\ pc = "loop" => i <= HASH_LEN
    /\ pc = "idle" => i = 0

C26_Witness ==
    /\ pc = "done"
    /\ i = HASH_LEN
    /\ is_match = 0
    /\ recipient_hash[1] # requester_hash[1]

(***************************************************************************)
(* C27.  In a create_post that distributes, the three payouts are 45%,     *)
(* 10% and the remainder of the distributable amount and add up to it      *)
(* exactly: the treasury is left with TREASURY_MIN_BALANCE and no lamport  *)
(* is lost or created, the rent of the new Post account counted.  A bid    *)
(* below MIN_BID is rejected and moves no lamport: no step that succeeds   *)
(* or changes the program's lamports or posts is a create_post with such   *)
(* a bid.                                                                  *)
(***************************************************************************)
LowBids == {bid \in Bids : bid < MIN_BID}

Paid(k) == wallet_lamports'[k] - wallet_lamports[k]

Lamports(t, w, a, p) ==
    t + w[1] + w[2] + w[3] + a["A"] + Rent(POST_SPACE) * Cardinality(DOMAIN p)

C27_SplitIsExact ==
    [][outcome'.op = "create_post" =>
        /\ outcome'.status = "Ok" =>
              \E k \in DOMAIN post' \ DOMAIN post :
                 LET bid == post'[k].bid
                     balance == treasury + bid
                     d == balance - TREASURY_MIN_BALANCE
                 IN /\ bid >= MIN_BID
                    /\ balance > TREASURY_MIN_BALANCE =>
                          /\ Paid(1) = (d * 45) \div 100
                          /\ Paid(2) = (d * 10) \div 100
                          /\ Paid(3) = d - Paid(1) - Paid(2)
                          /\ Paid(1) + Paid(2) + Paid(3) = d
                          /\ treasury' = TREASURY_MIN_BALANCE
                    /\ author_lamports'[post'[k].author] =
                          author_lamports[post'[k].author] - Rent(POST_SPACE) - bid
                    /\ Lamports(treasury', wallet_lamports', author_lamports', post')
                          = Lamports(treasury, wallet_lamports, author_lamports, post)
        /\ (outcome'.status = "Ok" \/ post_program' # post_program) =>
              \A author \in Authors, wallets \in WalletChoices, target \in Targets,
                 content \in PostContentLens, bid \in LowBids, now \in Times :
                 ~create_post(author, wallets, target, content, bid, now)]_vars

C27_Witness ==
    /\ outcome.op = "create_post"
    /\ outcome.status = "Ok"
    /\ treasury = TREASURY_MIN_BALANCE
    /\ wallet_lamports[3] > wallet_lamports[1]
    /\ Cardinality(DOMAIN post) = 2
====
